---------------------------- MODULE Spec2Model ----------------------------
(***************************************************************************)
(* Model of the pyspark validation script: spark_validation.py (main, the  *)
(* row-count and content checks, the report writer) and the pydantic       *)
(* configuration model of helpers/models/validation_config.py.             *)
(***************************************************************************)
EXTENDS Integers, Sequences, FiniteSets, Bags, TLC

VARIABLES
    pc,         \* position of the running procedure
    raw,        \* the raw input handed to the procedure
    config,     \* the constructed configuration object, or None
    df_source,  \* the source DataFrame, or None
    df_target,  \* the target DataFrame, or None
    res,        \* the value validate_row_count returned, or None
    content,    \* what validate_content logged, or None
    report,     \* the rows appended to setting.summary_log
    steps,      \* the steps main has started, in order
    error,      \* the exception that ended the procedure, or "none"
    now         \* what datetime.now() reads

vars == <<pc, raw, config, df_source, df_target, res, content, report, steps,
          error, now>>

\* An optional value is None or Some(v); text is a sequence (of characters, or
\* of the pieces of a strftime template), so the empty string is <<>>.
None == <<>>
Some(v) == <<v>>

\* Python's truth of an optional text: neither None nor empty.
Truthy(o) == o # None /\ o[1] # <<>>

\* Python's truth of an optional mapping whose absent keys read None:
\* neither None nor {}.
TruthyMap(o) == o # None /\ \E k \in DOMAIN o[1] : o[1][k] # None

(***************************************************************************)
(* Python floats (IEEE-754 binary64), as far as validate_row_count uses    *)
(* them: int / int, float * int and float <= int.  A positive float is a   *)
(* record [mant, exp]: mant is the 53-bit significand, most significant    *)
(* bit first, and the value is mant * 2^exp.  Zero is [mant |-> <<>>].     *)
(***************************************************************************)
MantBits == 53

FloatZero == [mant |-> <<>>, exp |-> 0]

RECURSIVE NatToBits(_)
NatToBits(n) == IF n = 0 THEN <<>> ELSE NatToBits(n \div 2) \o <<n % 2>>

RECURSIVE BitsToNat(_)
BitsToNat(b) ==
    IF b = <<>> THEN 0 ELSE 2 * BitsToNat(SubSeq(b, 1, Len(b) - 1)) + b[Len(b)]

AllZero(b) == \A i \in 1..Len(b) : b[i] = 0

\* b without its leading zeros.
StripZeros(b) ==
    IF AllZero(b) THEN <<>>
    ELSE LET k == CHOOSE i \in 1..Len(b) : b[i] = 1 /\ \A j \in 1..(i - 1) : b[j] = 0
         IN  SubSeq(b, k, Len(b))

\* b + 1 on a bit string; an all-ones string grows by one bit.
IncBits(b) ==
    IF \A i \in 1..Len(b) : b[i] = 1 THEN <<1>> \o [i \in 1..Len(b) |-> 0]
    ELSE LET k == CHOOSE i \in 1..Len(b) : b[i] = 0 /\ \A j \in (i + 1)..Len(b) : b[j] = 1
         IN  [i \in 1..Len(b) |-> IF i < k THEN b[i] ELSE IF i = k THEN 1 ELSE 0]

\* Round-half-to-even of the exact value (b followed by a nonzero tail iff
\* sticky) * 2^e, b having at least MantBits bits and a leading 1.
RoundBits(b, sticky, e) ==
    LET drop  == Len(b) - MantBits
        keep  == SubSeq(b, 1, MantBits)
        rest  == SubSeq(b, MantBits + 1, Len(b))
        guard == drop > 0 /\ rest[1] = 1
        tail  == sticky \/ (drop > 1 /\ ~AllZero(Tail(rest)))
        up    == guard /\ (tail \/ keep[MantBits] = 1)
        inc   == IF up THEN IncBits(keep) ELSE keep
    IN  IF Len(inc) > MantBits
        THEN [mant |-> SubSeq(inc, 1, MantBits), exp |-> e + drop + 1]
        ELSE [mant |-> inc, exp |-> e + drop]

\* The 8 binary digits of each base-256 digit, in order.
DigitsToBits(ds) ==
    [i \in 1..(8 * Len(ds)) |-> (ds[((i - 1) \div 8) + 1] \div 2^(7 - ((i - 1) % 8))) % 2]

\* The base-256 digits of a bit string, padded with zeros on the left.
BitsToDigits(b) ==
    LET n   == (Len(b) + 7) \div 8
        pad == [i \in 1..(8 * n - Len(b)) |-> 0] \o b
    IN  [k \in 1..n |-> BitsToNat(SubSeq(pad, 8 * k - 7, 8 * k))]

\* n base-256 digits of r / s after the point (r < s < 2^23), and the
\* remainder left.
RECURSIVE LongDiv(_, _, _)
LongDiv(r, s, n) ==
    IF n = 0 THEN [digits |-> <<>>, rem |-> r]
    ELSE LET t == LongDiv((256 * r) % s, s, n - 1)
         IN  [digits |-> <<(256 * r) \div s>> \o t.digits, rem |-> t.rem]

\* int / int: Python's true division, correctly rounded (d >= 0, 0 < s < 2^23,
\* d < 2^30).  Twelve digits after the point leave at least MantBits + 1
\* significant bits whatever the quotient.
FloatDiv(d, s) ==
    IF d = 0 THEN FloatZero
    ELSE LET q == LongDiv(d % s, s, 12)
             b == StripZeros(NatToBits(d \div s) \o DigitsToBits(q.digits))
         IN  RoundBits(b, q.rem # 0, -96)

\* The exact product of base-256 digits and a natural c < 2^22.
RECURSIVE MulDigits(_, _, _)
MulDigits(ds, c, carry) ==
    IF ds = <<>> THEN IF carry = 0 THEN <<>> ELSE MulDigits(<<0>>, 1, carry)
    ELSE LET v == ds[Len(ds)] * c + carry
         IN  MulDigits(SubSeq(ds, 1, Len(ds) - 1), c, v \div 256) \o <<v % 256>>

\* float * int for a natural 1 <= c < 2^22, correctly rounded.
FloatMul(x, c) ==
    IF x.mant = <<>> THEN FloatZero
    ELSE RoundBits(StripZeros(DigitsToBits(MulDigits(BitsToDigits(x.mant), c, 0))),
                   FALSE, x.exp)

\* float <= int, exact as Python compares them (|t| < 2^30).
FloatLeqInt(x, t) ==
    IF x.mant = <<>> THEN 0 <= t
    ELSE IF t < 0 \/ x.exp >= 0 THEN FALSE
    ELSE IF -x.exp >= MantBits THEN t >= 1
    ELSE LET k  == MantBits + x.exp
             ip == SubSeq(x.mant, 1, k)
             fr == SubSeq(x.mant, k + 1, MantBits)
         IN  IF k > 30 THEN FALSE
             ELSE BitsToNat(ip) < t \/ (BitsToNat(ip) = t /\ AllZero(fr))

(***************************************************************************)
(* datetime: naive timestamps as the fields Python keeps, with the         *)
(* proleptic Gregorian ordinal arithmetic datetime - timedelta uses.       *)
(***************************************************************************)
DateTime(y, mo, d, h, mi, s, us) ==
    [year |-> y, month |-> mo, day |-> d, hour |-> h, minute |-> mi,
     second |-> s, microsecond |-> us]

IsLeap(y) == y % 4 = 0 /\ (y % 100 # 0 \/ y % 400 = 0)

DaysInMonth(y, m) ==
    IF m = 2 THEN (IF IsLeap(y) THEN 29 ELSE 28)
    ELSE IF m \in {4, 6, 9, 11} THEN 30 ELSE 31

DaysBeforeYear(y) ==
    (y - 1) * 365 + (y - 1) \div 4 - (y - 1) \div 100 + (y - 1) \div 400

RECURSIVE DaysBeforeMonth(_, _)
DaysBeforeMonth(y, m) ==
    IF m = 1 THEN 0 ELSE DaysBeforeMonth(y, m - 1) + DaysInMonth(y, m - 1)

\* date.toordinal(): 0001-01-01 is day 1.
ToOrdinal(t) == DaysBeforeYear(t.year) + DaysBeforeMonth(t.year, t.month) + t.day

\* date.fromordinal(), by the 400/100/4/1-year cycles of _ord2ymd.
FromOrdinal(ord) ==
    LET n0    == ord - 1
        n400  == n0 \div 146097
        r400  == n0 % 146097
        n100  == r400 \div 36524
        r100  == r400 % 36524
        n4    == r100 \div 1461
        r4    == r100 % 1461
        n1    == r4 \div 365
        n     == r4 % 365
        y     == n400 * 400 + 1 + n100 * 100 + n4 * 4 + n1
        m     == CHOOSE k \in 1..12 :
                    /\ DaysBeforeMonth(y, k) <= n
                    /\ n < DaysBeforeMonth(y, k) + DaysInMonth(y, k)
    IN  IF n1 = 4 \/ n100 = 4
        THEN [year |-> y - 1, month |-> 12, day |-> 31]
        ELSE [year |-> y, month |-> m, day |-> n - DaysBeforeMonth(y, m) + 1]

\* datetime - timedelta(seconds = delay): days and seconds are normalised
\* with floor division, the microseconds are untouched.
MinusSeconds(t, delay) ==
    LET secs == t.hour * 3600 + t.minute * 60 + t.second - delay
        date == FromOrdinal(ToOrdinal(t) + secs \div 86400)
        sod  == secs % 86400
    IN  DateTime(date.year, date.month, date.day,
                 sod \div 3600, (sod % 3600) \div 60, sod % 60, t.microsecond)

(***************************************************************************)
(* Text is a sequence of one-character strings.                            *)
(***************************************************************************)
DigitChars == <<"0", "1", "2", "3", "4", "5", "6", "7", "8", "9">>

IsDigit(c) == \E i \in 1..10 : DigitChars[i] = c

DigitValue(c) == (CHOOSE i \in 1..10 : DigitChars[i] = c) - 1

RECURSIVE ParseNat(_)
ParseNat(s) ==
    IF s = <<>> THEN 0
    ELSE 10 * ParseNat(SubSeq(s, 1, Len(s) - 1)) + DigitValue(s[Len(s)])

\* n as w decimal digits, zero-padded: what %Y (w = 4) and %m, %d, %H, %M, %S
\* (w = 2) render.
Pad(n, w) == [i \in 1..w |-> DigitChars[((n \div 10^(w - i)) % 10) + 1]]

\* The text of t in the form "%Y-%m-%d %H:%M:%S".
FormatDateTime(t) ==
    Pad(t.year, 4) \o <<"-">> \o Pad(t.month, 2) \o <<"-">> \o Pad(t.day, 2) \o <<" ">>
    \o Pad(t.hour, 2) \o <<":">> \o Pad(t.minute, 2) \o <<":">> \o Pad(t.second, 2)

ValueError == "ValueError"

\* datetime.strptime(text, "%Y-%m-%d %H:%M:%S"): four year digits, one or two
\* digits for every other field, the separators of the format between them
\* (one space for the blank), every field within its range and the day within
\* its month.  The microsecond of the result is 0.
strptime(text) ==
    LET seps  == {i \in 1..Len(text) : ~IsDigit(text[i])}
        pos   == [k \in 1..5 |->
                    CHOOSE i \in seps : Cardinality({j \in seps : j < i}) = k - 1]
        field == [k \in 1..6 |->
                    SubSeq(text, IF k = 1 THEN 1 ELSE pos[k - 1] + 1,
                                 IF k = 6 THEN Len(text) ELSE pos[k] - 1)]
        num   == [k \in 1..6 |-> ParseNat(field[k])]
        shape == /\ Cardinality(seps) = 5
                 /\ <<text[pos[1]], text[pos[2]], text[pos[3]], text[pos[4]], text[pos[5]]>>
                        = <<"-", "-", " ", ":", ":">>
                 /\ Len(field[1]) = 4
                 /\ \A k \in 2..6 : Len(field[k]) \in {1, 2}
        range == /\ num[1] >= 1
                 /\ num[2] \in 1..12
                 /\ num[3] \in 1..DaysInMonth(num[1], num[2])
                 /\ num[4] \in 0..23
                 /\ num[5] \in 0..59
                 /\ num[6] \in 0..59
    IN  IF shape /\ range
        THEN [exc |-> "none",
              value |-> DateTime(num[1], num[2], num[3], num[4], num[5], num[6], 0)]
        ELSE [exc |-> ValueError, value |-> DateTime(1, 1, 1, 0, 0, 0, 0)]

(***************************************************************************)
(* ValidationConfig.set_process_datetime                                   *)
(***************************************************************************)
\* Truncate with the period reached by stepping back: the month by
\* t - timedelta(days = t.day), the day and the hour by one whole unit.
Truncate_stepping_back(granularity, t) ==
    LET back == IF granularity = "monthly" THEN MinusSeconds(t, t.day * 86400)
                ELSE IF granularity = "daily" THEN MinusSeconds(t, 86400)
                ELSE MinusSeconds(t, 3600)
    IN  IF granularity = "monthly"
        THEN DateTime(back.year, back.month, back.day, 0, 0, 0, 0)
        ELSE IF granularity = "daily"
        THEN DateTime(back.year, back.month, back.day, 0, 0, 0, 0)
        ELSE DateTime(back.year, back.month, back.day, back.hour, 0, 0, 0)

\* The truncation of lines 207-228: anything but monthly and daily (hourly,
\* and the default None) takes the last branch.
Truncate(granularity, t) ==
    IF granularity = "monthly"
    THEN DateTime(t.year, t.month, 1, 0, 0, 0, 0)
    ELSE IF granularity = "daily"
    THEN DateTime(t.year, t.month, t.day, 0, 0, 0, 0)
    ELSE DateTime(t.year, t.month, t.day, t.hour, 0, 0, 0)

\* set_process_datetime with the delay subtracted from the override as well.
set_process_datetime_delay_always(_datetime, _default_timedelay, _granularity, clock) ==
    LET parsed == strptime(_datetime)
    IN  IF _datetime # <<>> /\ parsed.exc # "none"
        THEN [exc |-> parsed.exc, value |-> parsed.value]
        ELSE [exc |-> "none",
              value |-> Truncate(_granularity,
                                 MinusSeconds(IF _datetime # <<>> THEN parsed.value
                                              ELSE clock, _default_timedelay))]

\* _datetime is the text of args.datetime, <<>> standing for both None and
\* the empty string (the code tests its truth).  clock is datetime.now().
set_process_datetime(_datetime, _default_timedelay, _granularity, clock) ==
    LET parsed == strptime(_datetime)
    IN  IF _datetime # <<>> /\ parsed.exc # "none"
        THEN [exc |-> parsed.exc, value |-> parsed.value]
        ELSE [exc |-> "none",
              value |-> Truncate(_granularity,
                                 IF _datetime # <<>> THEN parsed.value
                                 ELSE MinusSeconds(clock, _default_timedelay))]

(***************************************************************************)
(* strftime on a template: a sequence of pieces, each a directive or text  *)
(* copied as it is.                                                        *)
(***************************************************************************)
RECURSIVE Concat(_)
Concat(ss) == IF ss = <<>> THEN "" ELSE Head(ss) \o Concat(Tail(ss))

RenderPiece(t, piece) ==
    IF piece = "%Y" THEN Concat(Pad(t.year, 4))
    ELSE IF piece = "%m" THEN Concat(Pad(t.month, 2))
    ELSE IF piece = "%d" THEN Concat(Pad(t.day, 2))
    ELSE IF piece = "%H" THEN Concat(Pad(t.hour, 2))
    ELSE piece

\* The rendered text, as one piece (<<>> when nothing is rendered).
strftime(t, template) ==
    LET text == Concat([i \in 1..Len(template) |-> RenderPiece(t, template[i])])
    IN  IF text = "" THEN <<>> ELSE <<text>>

(***************************************************************************)
(* The pydantic models.  Each constructor takes the raw mapping (absent    *)
(* keys read None) and returns [exc, value]: exc is "none" and value the   *)
(* object, or exc is the exception raised.                                 *)
(***************************************************************************)
ValidationError == "ValidationError"

Raised(exc, values) == [exc |-> exc, value |-> values]

Built(object) == [exc |-> "none", value |-> object]

\* check_dbtable_or_query without its second test.
check_dbtable_or_query_no_both(values) ==
    Truthy(values.dbtable) \/ Truthy(values.query)

\* DatabaseOptions.check_dbtable_or_query (mode = 'before'): TRUE when it
\* returns the values, FALSE when it raises.
check_dbtable_or_query(values) ==
    LET dbtable == values.dbtable
        query   == values.query
    IN  IF ~(Truthy(dbtable) \/ Truthy(query)) THEN FALSE
        ELSE IF Truthy(dbtable) /\ Truthy(query) THEN FALSE
        ELSE TRUE

\* DatabaseOptions(**values): the validator, then the fields (url is required).
DatabaseOptions(values) ==
    IF check_dbtable_or_query(values) /\ values.url # None
    THEN Built(values)
    ELSE Raised(ValidationError, values)

\* DatabaseConfig(**values): format is the literal "jdbc", options a
\* DatabaseOptions.
DatabaseConfig(values) ==
    IF /\ values.format = Some("jdbc")
       /\ values.options # None
       /\ DatabaseOptions(values.options[1]).exc = "none"
    THEN Built(values)
    ELSE Raised(ValidationError, values)

\* FileConfig.set_file_options: the option set the format selects.
set_file_options(values) ==
    IF values.format = Some("csv") THEN Some("CsvOptions")
    ELSE IF values.format = Some("parquet") THEN Some("ParquetOptions")
    ELSE None

\* FileConfig(**values): format is "csv" or "parquet", path is required.
FileConfig(values) ==
    IF values.format \in {Some("csv"), Some("parquet")} /\ values.path # None
    THEN Built([format |-> values.format, path |-> values.path,
                options |-> set_file_options(values)])
    ELSE Raised(ValidationError, values)

\* check_target_config testing only the database branch.
check_target_config_database_only(values) ==
    ~(values.type = Some("database") /\ ~TruthyMap(values.database_config))

\* Datasource.check_target_config (mode = 'before'): TRUE when it returns the
\* values, FALSE when it raises.
check_target_config(values) ==
    LET ds_type == values.type
    IN  IF ds_type = Some("database") /\ ~TruthyMap(values.database_config) THEN FALSE
        ELSE IF ds_type = Some("file") /\ ~TruthyMap(values.file_config) THEN FALSE
        ELSE TRUE

\* Datasource(**values): the validator, then the fields: type is "database"
\* or "file", and each config that is not None must build.
Datasource(values) ==
    IF /\ check_target_config(values)
       /\ values.type \in {Some("database"), Some("file")}
       /\ values.database_config # None
            => DatabaseConfig(values.database_config[1]).exc = "none"
       /\ values.file_config # None
            => FileConfig(values.file_config[1]).exc = "none"
    THEN Built([type |-> values.type,
                database_config |-> values.database_config,
                file_config |->
                    IF values.file_config = None THEN None
                    ELSE Some(FileConfig(values.file_config[1]).value)])
    ELSE Raised(ValidationError, values)

\* Setting(**values): validation_threshold is an int with le = 100 and no
\* lower limit; granularity is one of the three literals or None.
Setting(values) ==
    IF /\ values.validation_threshold <= 100
       /\ values.granularity \in {None, Some("monthly"), Some("daily"), Some("hourly")}
    THEN Built(values)
    ELSE Raised(ValidationError, values)

\* set_strftime_string on one datasource: the query and the path rendered.
RenderDatasource(t, ds) ==
    LET db == ds.database_config
        fc == ds.file_config
    IN  [ds EXCEPT
            !.database_config =
                IF db # None /\ Truthy(db[1].options[1].query)
                THEN Some([db[1] EXCEPT !.options = Some([db[1].options[1] EXCEPT
                            !.query = Some(strftime(t, db[1].options[1].query[1]))])])
                ELSE db,
            !.file_config =
                IF fc # None /\ Truthy(fc[1].path)
                THEN Some([fc[1] EXCEPT !.path = Some(strftime(t, fc[1].path[1]))])
                ELSE fc]

\* ValidationConfig.set_strftime_string
set_strftime_string(values) ==
    LET t == values.process_datetime
    IN  [values EXCEPT
            !.setting.summary_log = strftime(t, values.setting.summary_log),
            !.source = RenderDatasource(t, values.source),
            !.target = RenderDatasource(t, values.target)]

\* ValidationConfig(**dict_config, args = vars(args)): the fields, then
\* set_process_datetime, then set_strftime_string.  A ValueError raised in a
\* validator leaves as pydantic's ValidationError.
ValidationConfig(values, clock) ==
    LET setting == Setting(values.setting)
        source  == Datasource(values.source)
        target  == Datasource(values.target)
        fields  == setting.exc = "none" /\ source.exc = "none" /\ target.exc = "none"
        granularity == IF values.setting.granularity = None THEN "None"
                       ELSE values.setting.granularity[1]
        pd      == set_process_datetime(IF values.args.datetime = None THEN <<>>
                                        ELSE values.args.datetime[1],
                                        values.setting.defaulttimedelay,
                                        granularity, clock)
    IN  IF fields /\ pd.exc = "none"
        THEN Built(set_strftime_string(
                    [args |-> values.args, setting |-> setting.value,
                     source |-> source.value, target |-> target.value,
                     process_datetime |-> pd.value]))
        ELSE Raised(ValidationError, values)

(***************************************************************************)
(* DataFrames: the column names in order and the rows as a bag; a cell is  *)
(* None (NULL) or Some(text).                                              *)
(***************************************************************************)
DataFrame(columns, rows) == [columns |-> columns, rows |-> rows]

\* df.count()
Count(df) == BagCardinality(df.rows)

RECURSIVE Join(_, _)
Join(sep, texts) ==
    IF texts = <<>> THEN ""
    ELSE IF Len(texts) = 1 THEN texts[1]
    ELSE texts[1] \o sep \o Join(sep, Tail(texts))

\* concat_ws(sep, *): the cells that are not NULL, joined by sep.
concat_ws(sep, row) ==
    LET present == SelectSeq(row, LAMBDA c : c # None)
    IN  Join(sep, [i \in 1..Len(present) |-> present[i][1]])

\* df.selectExpr("concat_ws('||', *) as row").distinct()
RowHash(df) == {concat_ws("||", r) : r \in BagToSet(df.rows)}

(***************************************************************************)
(* spark_validation.py                                                     *)
(***************************************************************************)
ZeroDivisionError == "ZeroDivisionError"

DataSourceError == "DataSourceError"

Abs(x) == IF x >= 0 THEN x ELSE -x

\* validate_row_count: [exc, value], value being the dictionary returned.
validate_row_count(source, target, threshold) ==
    LET count_source    == Count(source)
        count_target    == Count(target)
        count_diff      == Abs(count_source - count_target)
        percentage_diff == FloatMul(FloatDiv(count_diff, count_source), 100)
    IN  IF count_source = 0
        THEN Raised(ZeroDivisionError, None)
        ELSE Built([count_source    |-> count_source,
                    count_target    |-> count_target,
                    count_diff      |-> count_diff,
                    percentage_diff |-> percentage_diff,
                    threshold       |-> threshold,
                    is_passed       |-> FloatLeqInt(percentage_diff, threshold)])

\* validate_content with is_passed decided by the source side alone.
validate_content_source_only(source, target) ==
    IF source.columns # target.columns
    THEN [schema_match |-> FALSE, source_not_in_target |-> None,
          target_not_in_source |-> None, is_passed |-> FALSE]
    ELSE LET diff_source_count == Cardinality(RowHash(source) \ RowHash(target))
             diff_target_count == Cardinality(RowHash(target) \ RowHash(source))
         IN  [schema_match |-> TRUE,
              source_not_in_target |-> Some(diff_source_count),
              target_not_in_source |-> Some(diff_target_count),
              is_passed |-> diff_source_count = 0]

\* validate_content returns nothing: this is what it logs, the counts being
\* None where the log says N/A.
validate_content(source, target) ==
    IF source.columns # target.columns
    THEN [schema_match |-> FALSE, source_not_in_target |-> None,
          target_not_in_source |-> None, is_passed |-> FALSE]
    ELSE LET source_hash == RowHash(source)
             target_hash == RowHash(target)
             diff_source_count == Cardinality(source_hash \ target_hash)
             diff_target_count == Cardinality(target_hash \ source_hash)
         IN  [schema_match |-> TRUE,
              source_not_in_target |-> Some(diff_source_count),
              target_not_in_source |-> Some(diff_target_count),
              is_passed |-> diff_source_count = 0 /\ diff_target_count = 0]

\* spark_write_hdfs: the row appended to config.summary_log (type, source_name
\* and destination_name, copied from the setting, are left out; the clock is
\* read as at the start of the run).
spark_write_hdfs(store, setting, process_datetime, data, clock) ==
    Append(store, [path              |-> setting.summary_log,
                   timestamp         |-> clock,
                   datetime          |-> process_datetime,
                   granularity       |-> setting.granularity,
                   source_count      |-> data.count_source,
                   destination_count |-> data.count_target])

(***************************************************************************)
(* The inputs the specifications draw from.                                *)
(***************************************************************************)
MaxRows == 2

MaxCount == 25

Cells == {None, Some("x")}

RowValues == [1..2 -> Cells]

Schemas == {<<"a", "b">>, <<"b", "a">>}

RECURSIVE SumOver(_, _)
SumOver(f, S) ==
    IF S = {} THEN 0
    ELSE LET x == CHOOSE y \in S : TRUE IN f[x] + SumOver(f, S \ {x})

\* Every bag of at most MaxRows rows.
RowBags ==
    {[r \in {v \in RowValues : f[v] > 0} |-> f[r]] :
        f \in {g \in [RowValues -> 0..MaxRows] : SumOver(g, RowValues) <= MaxRows}}

DataFrames == {DataFrame(c, b) : c \in Schemas, b \in RowBags}

\* A DataFrame of n equal rows.
Uniform(n) ==
    DataFrame(<<"a", "b">>,
              IF n = 0 THEN EmptyBag ELSE [r \in {<<Some("x"), None>>} |-> n])

Thresholds == (-1)..101

RawDatabaseOptionsSet ==
    [url     : {None, Some(<<"jdbc:h2:mem">>)},
     dbtable : {None, Some(<<>>), Some(<<"t">>)},
     query   : {None, Some(<<>>), Some(<<"select * from t where d = ", "%Y", "%m", "%d">>)}]

RawDatabaseConfigs ==
    {None, Some([format |-> None, options |-> None])}
    \cup {Some([format |-> Some("jdbc"), options |-> Some(o)]) : o \in RawDatabaseOptionsSet}

RawFileConfigs ==
    {None, Some([format |-> None, path |-> None])}
    \cup {Some([format |-> Some(f), path |-> p]) :
            f \in {"csv", "parquet", "orc"}, p \in {None, Some(<<"/data/", "%Y", "/", "%m">>)}}

RawDatasources ==
    [type            : {None, Some("database"), Some("file"), Some("table")},
     database_config : RawDatabaseConfigs,
     file_config     : RawFileConfigs]

Clocks ==
    {DateTime(2024, 1, 1, 10, 45, 0, 0), DateTime(2024, 3, 1, 0, 0, 30, 999999),
     DateTime(2023, 12, 31, 23, 59, 59, 5), DateTime(2024, 2, 29, 12, 0, 0, 1)}

Delays == {0, 31, 3600, 86400, -60}

OverrideTimes ==
    {DateTime(2024, 3, 15, 14, 32, 10, 0), DateTime(2024, 2, 29, 23, 59, 59, 0),
     DateTime(2023, 1, 1, 0, 0, 0, 0)}

\* "2023-02-29 00:00:00" (no such day) and "2024-03-15" (no time of day).
BadOverrides ==
    {FormatDateTime(DateTime(2023, 2, 29, 0, 0, 0, 0)),
     SubSeq(FormatDateTime(DateTime(2024, 3, 15, 0, 0, 0, 0)), 1, 10)}

Overrides ==
    {None, Some(<<>>)} \cup {Some(FormatDateTime(d)) : d \in OverrideTimes}
    \cup {Some(s) : s \in BadOverrides}

\* The granularities a validated Setting can hold.
Granularities == {None, Some("monthly"), Some("daily"), Some("hourly")}

TruncateTimes == {MinusSeconds(c, d) : c \in Clocks, d \in Delays} \cup OverrideTimes

MaxApply == 2

RunClock == DateTime(2024, 1, 1, 10, 45, 0, 0)

FileSource ==
    [type |-> Some("file"), database_config |-> None,
     file_config |-> Some([format |-> Some("csv"),
                           path |-> Some(<<"/data/", "%Y", "/", "%m">>)])]

DatabaseTarget ==
    [type |-> Some("database"), file_config |-> None,
     database_config |->
        Some([format |-> Some("jdbc"),
              options |-> Some([url |-> Some(<<"jdbc:h2:mem">>), dbtable |-> Some(<<"t">>),
                                query |-> None])])]

\* The mappings main may be started with: parse_config's dictionary and the
\* command line's --datetime.
RunConfigs ==
    [args    : [datetime : {None, Some(FormatDateTime(DateTime(2024, 3, 15, 14, 32, 10, 0)))}],
     setting : [validation_threshold : {-1, 50, 101},
                validate_content     : BOOLEAN,
                defaulttimedelay     : {3600},
                summary_log          : {<<"/logs/", "%Y", "-", "%m", "/summary">>},
                granularity          : {Some("daily")}],
     source  : {FileSource},
     target  : {DatabaseTarget, [DatabaseTarget EXCEPT !.database_config = None]}]

(***************************************************************************)
(* main: one run of the script.  pc names the statement main is about to   *)
(* execute; an exception ends the run at pc = "raised".                    *)
(***************************************************************************)
Init ==
    /\ pc = "config"
    /\ raw \in RunConfigs
    /\ now = RunClock
    /\ config = None
    /\ df_source = None
    /\ df_target = None
    /\ res = None
    /\ content = None
    /\ report = <<>>
    /\ steps = <<>>
    /\ error = "none"

\* What read_dataset may return or raise: it dispatches on the type to
\* spark_read_file or spark_read_db, and the engine decides the outcome.
read_dataset(dataset_config) ==
    {Built(df) : df \in DataFrames} \cup {Raised(DataSourceError, None)}

\* lines 155-160: config = ValidationConfig(**dict_config, args = vars(args))
main_config ==
    /\ pc = "config"
    /\ steps' = Append(steps, "config")
    /\ LET r == ValidationConfig(raw, now)
       IN  IF r.exc = "none"
           THEN config' = Some(r.value) /\ pc' = "read_source" /\ error' = error
           ELSE config' = config /\ pc' = "raised" /\ error' = r.exc
    /\ UNCHANGED <<raw, df_source, df_target, res, content, report, now>>

\* line 182: df_source = read_dataset(spark, config.source)
main_read_source ==
    /\ pc = "read_source"
    /\ steps' = Append(steps, "read_source")
    /\ \E r \in read_dataset(config[1].source) :
          IF r.exc = "none"
          THEN df_source' = Some(r.value) /\ pc' = "read_target" /\ error' = error
          ELSE df_source' = df_source /\ pc' = "raised" /\ error' = r.exc
    /\ UNCHANGED <<raw, config, df_target, res, content, report, now>>

\* line 183: df_target = read_dataset(spark, config.target)
main_read_target ==
    /\ pc = "read_target"
    /\ steps' = Append(steps, "read_target")
    /\ \E r \in read_dataset(config[1].target) :
          IF r.exc = "none"
          THEN df_target' = Some(r.value) /\ pc' = "validate_row_count" /\ error' = error
          ELSE df_target' = df_target /\ pc' = "raised" /\ error' = r.exc
    /\ UNCHANGED <<raw, config, df_source, res, content, report, now>>

\* line 187: res = validate_row_count(df_source, df_target, threshold)
main_validate_row_count ==
    /\ pc = "validate_row_count"
    /\ steps' = Append(steps, "validate_row_count")
    /\ LET r == validate_row_count(df_source[1], df_target[1],
                                   config[1].setting.validation_threshold)
       IN  IF r.exc = "none"
           THEN res' = Some(r.value) /\ pc' = "spark_write_hdfs" /\ error' = error
           ELSE res' = res /\ pc' = "raised" /\ error' = r.exc
    /\ UNCHANGED <<raw, config, df_source, df_target, content, report, now>>

\* main_spark_write_hdfs without the test of validate_content after it.
main_spark_write_hdfs_ungated ==
    /\ pc = "spark_write_hdfs"
    /\ steps' = Append(steps, "spark_write_hdfs")
    /\ report' = spark_write_hdfs(report, config[1].setting,
                                  config[1].process_datetime, res[1], now)
    /\ pc' = "validate_content"
    /\ UNCHANGED <<raw, config, df_source, df_target, res, content, error, now>>

\* lines 190-193: spark_write_hdfs(...), then the test of validate_content
main_spark_write_hdfs ==
    /\ pc = "spark_write_hdfs"
    /\ steps' = Append(steps, "spark_write_hdfs")
    /\ report' = spark_write_hdfs(report, config[1].setting,
                                  config[1].process_datetime, res[1], now)
    /\ pc' = IF config[1].setting.validate_content THEN "validate_content" ELSE "done"
    /\ UNCHANGED <<raw, config, df_source, df_target, res, content, error, now>>

\* line 194: validate_content(df_source, df_target)
main_validate_content ==
    /\ pc = "validate_content"
    /\ steps' = Append(steps, "validate_content")
    /\ content' = Some(validate_content(df_source[1], df_target[1]))
    /\ pc' = "done"
    /\ UNCHANGED <<raw, config, df_source, df_target, res, report, error, now>>

Next ==
    \/ main_config
    \/ main_read_source
    \/ main_read_target
    \/ main_validate_row_count
    \/ main_spark_write_hdfs
    \/ main_validate_content

Spec == Init /\ [][Next]_vars

(***************************************************************************)
(* validate_row_count as a function: two DataFrames of any counts up to    *)
(* MaxCount and any threshold.                                             *)
(***************************************************************************)
InitRowCount ==
    /\ pc = "call"
    /\ raw \in [threshold : Thresholds]
    /\ config = None
    /\ \E n \in 0..MaxCount : df_source = Some(Uniform(n))
    /\ \E n \in 0..MaxCount : df_target = Some(Uniform(n))
    /\ now = RunClock
    /\ res = None
    /\ content = None
    /\ report = <<>>
    /\ steps = <<>>
    /\ error = "none"

\* validate_row_count(df_source, df_target, raw.threshold)
call_validate_row_count ==
    /\ pc = "call"
    /\ LET r == validate_row_count(df_source[1], df_target[1], raw.threshold)
       IN  IF r.exc = "none"
           THEN res' = Some(r.value) /\ pc' = "returned" /\ error' = error
           ELSE res' = res /\ pc' = "raised" /\ error' = r.exc
    /\ UNCHANGED <<raw, config, df_source, df_target, content, report, steps, now>>

SpecRowCount == InitRowCount /\ [][call_validate_row_count]_vars

(***************************************************************************)
(* validate_content as a function: any two DataFrames of up to MaxRows     *)
(* rows.                                                                   *)
(***************************************************************************)
InitContent ==
    /\ pc = "call"
    /\ raw = None
    /\ config = None
    /\ \E df \in DataFrames : df_source = Some(df)
    /\ \E df \in DataFrames : df_target = Some(df)
    /\ now = RunClock
    /\ res = None
    /\ content = None
    /\ report = <<>>
    /\ steps = <<>>
    /\ error = "none"

\* validate_content(df_source, df_target)
call_validate_content ==
    /\ pc = "call"
    /\ content' = Some(validate_content(df_source[1], df_target[1]))
    /\ pc' = "returned"
    /\ UNCHANGED <<raw, config, df_source, df_target, res, report, steps, error, now>>

SpecContent == InitContent /\ [][call_validate_content]_vars

(***************************************************************************)
(* The constructors of Datasource and DatabaseOptions on any raw mapping.  *)
(***************************************************************************)
InitConfig ==
    /\ pc = "construct"
    /\ \/ \E v \in RawDatasources : raw = [cls |-> "Datasource", values |-> v]
       \/ \E v \in RawDatabaseOptionsSet : raw = [cls |-> "DatabaseOptions", values |-> v]
    /\ config = None
    /\ df_source = None
    /\ df_target = None
    /\ now = RunClock
    /\ res = None
    /\ content = None
    /\ report = <<>>
    /\ steps = <<>>
    /\ error = "none"

\* Datasource(**raw.values)
new_Datasource ==
    /\ pc = "construct"
    /\ raw.cls = "Datasource"
    /\ LET r == Datasource(raw.values)
       IN  IF r.exc = "none"
           THEN config' = Some(r.value) /\ pc' = "built" /\ error' = error
           ELSE config' = config /\ pc' = "raised" /\ error' = r.exc
    /\ UNCHANGED <<raw, df_source, df_target, res, content, report, steps, now>>

\* DatabaseOptions(**raw.values)
new_DatabaseOptions ==
    /\ pc = "construct"
    /\ raw.cls = "DatabaseOptions"
    /\ LET r == DatabaseOptions(raw.values)
       IN  IF r.exc = "none"
           THEN config' = Some(r.value) /\ pc' = "built" /\ error' = error
           ELSE config' = config /\ pc' = "raised" /\ error' = r.exc
    /\ UNCHANGED <<raw, df_source, df_target, res, content, report, steps, now>>

NextConfig == new_Datasource \/ new_DatabaseOptions

SpecConfig == InitConfig /\ [][NextConfig]_vars

(***************************************************************************)
(* set_process_datetime on any clock reading, delay, override and          *)
(* granularity a validated configuration can carry.                        *)
(***************************************************************************)
InitTime ==
    /\ pc = "set_process_datetime"
    /\ raw \in [datetime : Overrides, defaulttimedelay : Delays,
                granularity : Granularities]
    /\ now \in Clocks
    /\ config = None
    /\ df_source = None
    /\ df_target = None
    /\ res = None
    /\ content = None
    /\ report = <<>>
    /\ steps = <<>>
    /\ error = "none"

\* The validator run on the fields: config holds the process_datetime it set.
call_set_process_datetime ==
    /\ pc = "set_process_datetime"
    /\ LET r == set_process_datetime(
                    IF raw.datetime = None THEN <<>> ELSE raw.datetime[1],
                    raw.defaulttimedelay,
                    IF raw.granularity = None THEN "None" ELSE raw.granularity[1],
                    now)
       IN  IF r.exc = "none"
           THEN config' = Some(r.value) /\ pc' = "returned" /\ error' = error
           ELSE config' = config /\ pc' = "raised" /\ error' = r.exc
    /\ UNCHANGED <<raw, df_source, df_target, res, content, report, steps, now>>

SpecTime == InitTime /\ [][call_set_process_datetime]_vars

(***************************************************************************)
(* The truncation applied again and again to a timestamp: steps holds the  *)
(* successive results.                                                     *)
(***************************************************************************)
InitTruncate ==
    /\ pc = "truncate"
    /\ raw \in [granularity : {"monthly", "daily", "hourly"}, timestamp : TruncateTimes]
    /\ now = RunClock
    /\ config = None
    /\ df_source = None
    /\ df_target = None
    /\ res = None
    /\ content = None
    /\ report = <<>>
    /\ steps = <<>>
    /\ error = "none"

\* lines 207-228 applied to the timestamp, or to their own last result.
apply_Truncate ==
    /\ pc = "truncate"
    /\ Len(steps) < MaxApply
    /\ steps' = Append(steps, Truncate(raw.granularity,
                                       IF steps = <<>> THEN raw.timestamp
                                       ELSE steps[Len(steps)]))
    /\ UNCHANGED <<pc, raw, config, df_source, df_target, res, content, report,
                   error, now>>

SpecTruncate == InitTruncate /\ [][apply_Truncate]_vars

(***************************************************************************)
(* The claims.                                                             *)
(***************************************************************************)

\* C1: validate_row_count never raises for non-negative counts: once it has
\* run, whatever the two counts (count_source = 0 included), the run has not
\* ended in an exception and res holds a result record.
C1_RowCountNeverRaises ==
    pc # "call" => (pc = "returned" /\ error = "none" /\ res # None)

\* C2: for count_source > 0 the result has count_diff = |count_source -
\* count_target| and is_passed is true exactly when
\* count_diff * 100 <= threshold * count_source.
C2_PassedIffWithinThreshold ==
    res # None =>
        /\ res[1].count_source = Count(df_source[1])
        /\ res[1].count_target = Count(df_target[1])
        /\ res[1].count_diff = Abs(Count(df_source[1]) - Count(df_target[1]))
        /\ res[1].is_passed <=>
              res[1].count_diff * 100 <= raw.threshold * res[1].count_source

\* C3: a run whose configuration resolved and whose two reads succeeded has,
\* when it ends, appended exactly one record, carrying the two counts of the
\* run; and no run appends more than one record.
C3_OneRecordPerRun ==
    /\ Len(report) <= 1
    /\ (pc \in {"done", "raised"} /\ config # None /\ df_source # None /\ df_target # None)
          => /\ Len(report) = 1
             /\ report[1].source_count = Count(df_source[1])
             /\ report[1].destination_count = Count(df_target[1])

C4_WellFormed(kind, o) ==
    IF kind = "database"
    THEN /\ o[1].format = Some("jdbc")
         /\ o[1].options # None
         /\ o[1].options[1].url # None
         /\ Truthy(o[1].options[1].dbtable) # Truthy(o[1].options[1].query)
    ELSE /\ o[1].format \in {Some("csv"), Some("parquet")}
         /\ o[1].path # None

C5_ExactlyOne(o) == Truthy(o.dbtable) # Truthy(o.query)

\* C5: a DatabaseOptions construction fails when both dbtable and query are
\* set and when neither is, and every DatabaseOptions that exists (built on
\* its own or inside a built Datasource) has exactly one of the two set.
C5_DbtableXorQuery ==
    /\ (raw.cls = "DatabaseOptions" /\ pc # "construct") =>
          /\ (Truthy(raw.values.dbtable) /\ Truthy(raw.values.query)) => pc = "raised"
          /\ (~Truthy(raw.values.dbtable) /\ ~Truthy(raw.values.query)) => pc = "raised"
          /\ pc = "built" => C5_ExactlyOne(config[1])
    /\ (raw.cls = "Datasource" /\ pc = "built" /\ config[1].database_config # None) =>
          C5_ExactlyOne(config[1].database_config[1].options[1])

\* C5's case: a DatabaseOptions built from a query alone.
C5_BuiltWithQuery ==
    /\ raw.cls = "DatabaseOptions"
    /\ pc = "built"
    /\ config[1].dbtable = None
    /\ Truthy(config[1].query)

\* C6: no configuration is built with a validation_threshold outside 0..100,
\* so the threshold handed to validate_row_count lies in 0..100.
C6_ThresholdWithinRange ==
    /\ config # None => config[1].setting.validation_threshold \in 0..100
    /\ res # None => res[1].threshold \in 0..100

\* Seconds from the start of 2022 to t, by the calendar alone.
C7_Seconds(t) ==
    (ToOrdinal(t) - ToOrdinal(DateTime(2022, 1, 1, 0, 0, 0, 0))) * 86400
    + t.hour * 3600 + t.minute * 60 + t.second

\* p is the floor to granularity g of the instant base (in seconds): p starts
\* a period of g and base lies within that period.
C7_IsFloor(g, p, base) ==
    /\ p.microsecond = 0 /\ p.second = 0 /\ p.minute = 0
    /\ g \in {"monthly", "daily"} => p.hour = 0
    /\ g = "monthly" => p.day = 1
    /\ C7_Seconds(p) <= base
    /\ base < C7_Seconds(p) + (IF g = "monthly" THEN DaysInMonth(p.year, p.month) * 86400
                               ELSE IF g = "daily" THEN 86400 ELSE 3600)

\* C7: the process_datetime is the floor, to the configured granularity, of
\* the override when one is supplied (no delay applied) and of now minus the
\* delay otherwise; it is never later than that base; and a well-formed
\* override or none at all always resolves.
C7_FloorOfBase ==
    LET supplied == Truthy(raw.datetime)
        wellformed == \E d \in OverrideTimes : raw.datetime = Some(FormatDateTime(d))
    IN  /\ (pc = "returned" /\ raw.granularity # None) =>
              C7_IsFloor(raw.granularity[1], config[1],
                         IF supplied
                         THEN C7_Seconds(CHOOSE d \in OverrideTimes :
                                            raw.datetime = Some(FormatDateTime(d)))
                         ELSE C7_Seconds(now) - raw.defaulttimedelay)
        /\ (pc # "set_process_datetime" /\ (~supplied \/ wellformed)) => pc = "returned"

\* C7's case: no override, a delay of 3600 s, hourly, at 2024-01-01 10:45:00
\* resolves to 2024-01-01 09:00:00.
C7_DelayedHourly ==
    /\ pc = "returned"
    /\ raw.datetime = None
    /\ raw.defaulttimedelay = 3600
    /\ raw.granularity = Some("hourly")
    /\ now = DateTime(2024, 1, 1, 10, 45, 0, 0)
    /\ config[1] = DateTime(2024, 1, 1, 9, 0, 0, 0)

\* C8: the steps of a run start in the order config, read source, read
\* target, count-compare, write report, content-compare, each at most once;
\* nothing is read before the configuration exists, the report is written
\* only once the row-count result exists, and the content comparison runs
\* only after the report is written and only when validate_content is true.
C8_StepOrder ==
    LET order == <<"config", "read_source", "read_target", "validate_row_count",
                   "spark_write_hdfs", "validate_content">>
    IN  /\ Len(steps) <= Len(order)
        /\ \A i \in 1..Len(steps) : steps[i] = order[i]
        /\ (df_source # None \/ df_target # None) => config # None
        /\ df_target # None => df_source # None
        /\ res # None => df_target # None
        /\ report # <<>> => res # None
        /\ (content # None \/ pc = "validate_content") =>
              (report # <<>> /\ config[1].setting.validate_content)
        /\ (pc = "done" /\ config[1].setting.validate_content) => content # None

\* C8's case: a run that went through every step, the content comparison
\* included.
C8_FullRun == pc = "done" /\ content # None /\ Len(steps) = 6

\* C9: validate_content never raises; it reports passed exactly when the
\* column sequences are equal and the sets of distinct fingerprints are
\* equal; with different column sequences it reports a schema mismatch and
\* no counts; otherwise the counts are the sizes of the two set differences.
C9_ContentPassedIffEqual ==
    /\ pc # "call" => (pc = "returned" /\ error = "none" /\ content # None)
    /\ content # None =>
          LET s    == df_source[1]
              t    == df_target[1]
              same == s.columns = t.columns
          IN  /\ content[1].is_passed <=> (same /\ RowHash(s) = RowHash(t))
              /\ content[1].schema_match <=> same
              /\ ~same => /\ content[1].source_not_in_target = None
                          /\ content[1].target_not_in_source = None
              /\ same => /\ content[1].source_not_in_target
                              = Some(Cardinality(RowHash(s) \ RowHash(t)))
                         /\ content[1].target_not_in_source
                              = Some(Cardinality(RowHash(t) \ RowHash(s)))

\* C9's case: same schema, one distinct row only in the source and one only
\* in the target: 1, 1 and not passed.
C9_OneExtraEachSide ==
    /\ content # None
    /\ content[1].schema_match
    /\ content[1].source_not_in_target = Some(1)
    /\ content[1].target_not_in_source = Some(1)
    /\ ~content[1].is_passed

\* C10: truncating a truncated timestamp changes nothing: every later result
\* of the repeated truncation equals the first.
C10_TruncateIdempotent ==
    \A i \in 1..Len(steps) : steps[i] = steps[1]

\* C10's case: a truncation that changed its timestamp, applied a second time.
C10_TruncatedTwice ==
    Len(steps) >= 2 /\ steps[1] # raw.timestamp

=============================================================================
